---- MODULE Spec2Model ----
(***************************************************************************)
(* stripe-to-sheet: Stripe webhook -> Google Sheets relay and paid-check   *)
(* API (src/server.js).                                                    *)
(*                                                                         *)
(* Strings are sequences of one-character strings, so that trim(),         *)
(* toLowerCase() and includes() are computed and not assumed.  The value   *)
(* NULL stands for JavaScript's null / undefined.  A sheet is a sequence   *)
(* of rows <<A, B, C>>; a cell the Sheets API would leave out of the row   *)
(* is the empty string, which is what `(row[i] && ...) || ''` reads.       *)
(* `last` is the response, and the store calls, of the request served      *)
(* last; `pending` holds the webhook requests that are between their       *)
(* store calls when requests are served concurrently.                      *)
(***************************************************************************)
EXTENDS Integers, Sequences, FiniteSets, TLC

VARIABLES sheet, config, last, pending

vars == <<sheet, config, last, pending>>

(* ------------------------------------------------------------------ *)
(* Bounds                                                              *)
(* ------------------------------------------------------------------ *)
MaxRows == 3

(* ------------------------------------------------------------------ *)
(* JavaScript values and string primitives                             *)
(* ------------------------------------------------------------------ *)
NULL == <<"null">>

EMPTY == <<>>

truthy(v) == v # NULL /\ v # EMPTY

Whitespace == {" "}

UpperChars == <<"A", "B", "C", "D", "E", "F", "G", "H", "I", "J", "K", "L", "M",
                "N", "O", "P", "Q", "R", "S", "T", "U", "V", "W", "X", "Y", "Z">>

LowerChars == <<"a", "b", "c", "d", "e", "f", "g", "h", "i", "j", "k", "l", "m",
                "n", "o", "p", "q", "r", "s", "t", "u", "v", "w", "x", "y", "z">>

UpperSet == {UpperChars[i] : i \in 1..Len(UpperChars)}

LowerOf == [c \in UpperSet |-> LowerChars[CHOOSE i \in 1..Len(UpperChars) : UpperChars[i] = c]]

toLowerChar(c) == IF c \in UpperSet THEN LowerOf[c] ELSE c

toLowerCase(s) == [i \in 1..Len(s) |-> toLowerChar(s[i])]

SetMin(S) == CHOOSE x \in S : \A y \in S : x <= y

SetMax(S) == CHOOSE x \in S : \A y \in S : y <= x

trim(s) ==
  LET keep == {i \in 1..Len(s) : s[i] \notin Whitespace}
  IN  IF keep = {} THEN EMPTY ELSE SubSeq(s, SetMin(keep), SetMax(keep))

includes(s, pat) ==
  \E i \in 0..(Len(s) - Len(pat)) : SubSeq(s, i + 1, i + Len(pat)) = pat

(* ------------------------------------------------------------------ *)
(* Program constants                                                   *)
(* ------------------------------------------------------------------ *)
STATUS_ACTIVE == <<"a", "c", "t", "i", "v", "e">>

STATUS_CANCELED == <<"c", "a", "n", "c", "e", "l", "e", "d">>

HEADER_MARK == <<"e", "m", "a", "i", "l">>

(* ------------------------------------------------------------------ *)
(* Row store: the three Sheets API calls the program issues            *)
(* ------------------------------------------------------------------ *)
Cell(row, i) == IF truthy(row[i]) THEN trim(row[i]) ELSE EMPTY

getSheetsClient(cfg) ==
  IF ~cfg.spreadsheetId \/ cfg.credentialsJson = "missing" THEN "threw"
  ELSE IF cfg.credentialsJson = "invalid" THEN "threw"
  ELSE "built"

getDataRows(rows) ==
  IF Len(rows) = 0 THEN <<>>
  ELSE LET first == IF truthy(rows[1][1]) THEN toLowerCase(rows[1][1]) ELSE EMPTY
       IN  IF includes(first, HEADER_MARK) THEN Tail(rows) ELSE rows

valuesGetAB(sh) == [i \in 1..Len(sh) |-> <<sh[i][1], sh[i][2], EMPTY>>]

NoWrite == [op |-> "none", rowIndex |-> 0, values |-> <<>>]

(* Fault variant: writing the status "canceled" removes the row.         *)
valuesWrite_RemoveCanceled(sh, w) ==
  IF w.op = "append" THEN Append(sh, w.values)
  ELSE IF w.op = "updateBC"
       THEN [sh EXCEPT ![w.rowIndex] = <<@[1], w.values[1], w.values[2]>>]
  ELSE IF w.op = "updateB"
       THEN IF w.values[1] = STATUS_CANCELED
            THEN SubSeq(sh, 1, w.rowIndex - 1) \o SubSeq(sh, w.rowIndex + 1, Len(sh))
            ELSE [sh EXCEPT ![w.rowIndex] = <<@[1], w.values[1], @[3]>>]
  ELSE sh

(* Fault variant: an append for an email some data row already holds is *)
(* turned into an update of that row by the store.                      *)
valuesWrite_AppendChecked(sh, w) ==
  LET data   == getDataRows(sh)
      offset == Len(sh) - Len(data)
      hits   == IF w.op = "append"
                THEN {i \in 1..Len(data) :
                        toLowerCase(trim(data[i][1])) = toLowerCase(trim(w.values[1]))}
                ELSE {}
  IN  IF hits # {}
      THEN [sh EXCEPT ![CHOOSE p \in {offset + i : i \in hits} :
                          \A i \in hits : p <= offset + i]
                        = <<@[1], w.values[2], w.values[3]>>]
      ELSE IF w.op = "append" THEN Append(sh, w.values)
      ELSE IF w.op = "updateBC"
           THEN [sh EXCEPT ![w.rowIndex] = <<@[1], w.values[1], w.values[2]>>]
      ELSE IF w.op = "updateB"
           THEN [sh EXCEPT ![w.rowIndex] = <<@[1], w.values[1], @[3]>>]
      ELSE sh

valuesWrite(sh, w) ==
  IF w.op = "append" THEN Append(sh, w.values)
  ELSE IF w.op = "updateBC"
       THEN [sh EXCEPT ![w.rowIndex] = <<@[1], w.values[1], w.values[2]>>]
  ELSE IF w.op = "updateB"
       THEN [sh EXCEPT ![w.rowIndex] = <<@[1], w.values[1], @[3]>>]
  ELSE sh

storeAfter(sh, r) == IF r.applied THEN valuesWrite(sh, r.write) ELSE sh

(* ------------------------------------------------------------------ *)
(* Paid-status lookup                                                  *)
(* `fail` names the store call that rejects in this request:           *)
(* "none", "get" or "write".                                           *)
(* ------------------------------------------------------------------ *)
FirstMatch(rows, col, key, fold) ==
  LET hits == {i \in 1..Len(rows) :
                 (IF fold THEN toLowerCase(Cell(rows[i], col)) ELSE Cell(rows[i], col)) = key}
  IN  IF hits = {} THEN 0 ELSE SetMin(hits)

CheckResult(threw, client, nGet, paid, status) ==
  [threw |-> threw, client |-> client, nGet |-> nGet, paid |-> paid, status |-> status]

(* Fault variant: the status is compared with "active" without lower-casing. *)
checkPaidUserEmail_CaseSensitive(email, cfg, sh, fail) ==
  LET normalized == toLowerCase(trim(email))
  IN  IF ~truthy(normalized) THEN CheckResult(FALSE, "none", 0, FALSE, NULL)
      ELSE IF getSheetsClient(cfg) = "threw" THEN CheckResult(TRUE, "threw", 0, FALSE, NULL)
      ELSE IF fail = "get" THEN CheckResult(TRUE, "built", 1, FALSE, NULL)
      ELSE LET rows == getDataRows(valuesGetAB(sh))
               i    == FirstMatch(rows, 1, normalized, TRUE)
           IN  IF i = 0 THEN CheckResult(FALSE, "built", 1, FALSE, NULL)
               ELSE LET status          == Cell(rows[i], 2)
                        effectiveStatus == IF truthy(status) THEN status ELSE STATUS_ACTIVE
                    IN  CheckResult(FALSE, "built", 1, effectiveStatus = STATUS_ACTIVE,
                                    IF truthy(effectiveStatus) THEN effectiveStatus ELSE NULL)

checkPaidUserEmail(email, cfg, sh, fail) ==
  LET normalized == toLowerCase(trim(email))
  IN  IF ~truthy(normalized) THEN CheckResult(FALSE, "none", 0, FALSE, NULL)
      ELSE IF getSheetsClient(cfg) = "threw" THEN CheckResult(TRUE, "threw", 0, FALSE, NULL)
      ELSE IF fail = "get" THEN CheckResult(TRUE, "built", 1, FALSE, NULL)
      ELSE LET rows == getDataRows(valuesGetAB(sh))
               i    == FirstMatch(rows, 1, normalized, TRUE)
           IN  IF i = 0 THEN CheckResult(FALSE, "built", 1, FALSE, NULL)
               ELSE LET status          == Cell(rows[i], 2)
                        effectiveStatus == IF truthy(status) THEN status ELSE STATUS_ACTIVE
                    IN  CheckResult(FALSE, "built", 1,
                                    toLowerCase(effectiveStatus) = STATUS_ACTIVE,
                                    IF truthy(effectiveStatus) THEN effectiveStatus ELSE NULL)

(* ------------------------------------------------------------------ *)
(* Reconciler: upsert by email, status update by subscription id       *)
(* ------------------------------------------------------------------ *)
WriteResult(threw, client, nGet, write, applied) ==
  [threw |-> threw, client |-> client, nGet |-> nGet, write |-> write, applied |-> applied]

(* Fault variant: the row index is the data-row index, the header row *)
(* is not counted.                                                    *)
upsertWrite_NoOffset(email, status, subscriptionId, allRows) ==
  LET rows       == getDataRows(allRows)
      normalized == toLowerCase(trim(email))
      subId      == IF truthy(subscriptionId) THEN trim(subscriptionId) ELSE EMPTY
      i          == FirstMatch(rows, 1, normalized, TRUE)
  IN  IF i # 0
      THEN [op |-> "updateBC", rowIndex |-> i, values |-> <<status, subId>>]
      ELSE [op |-> "append", rowIndex |-> 0, values |-> <<email, status, subId>>]

(* Fault variant: an empty subscription id keeps the id the row holds. *)
upsertWrite_KeepId(email, status, subscriptionId, allRows) ==
  LET rows         == getDataRows(allRows)
      headerOffset == Len(allRows) - Len(rows)
      normalized   == toLowerCase(trim(email))
      subId        == IF truthy(subscriptionId) THEN trim(subscriptionId) ELSE EMPTY
      i            == FirstMatch(rows, 1, normalized, TRUE)
  IN  IF i # 0
      THEN [op |-> "updateBC", rowIndex |-> headerOffset + i,
            values |-> <<status, IF subId = EMPTY THEN rows[i][3] ELSE subId>>]
      ELSE [op |-> "append", rowIndex |-> 0, values |-> <<email, status, subId>>]

upsertWrite(email, status, subscriptionId, allRows) ==
  LET rows         == getDataRows(allRows)
      headerOffset == Len(allRows) - Len(rows)
      normalized   == toLowerCase(trim(email))
      subId        == IF truthy(subscriptionId) THEN trim(subscriptionId) ELSE EMPTY
      i            == FirstMatch(rows, 1, normalized, TRUE)
  IN  IF i # 0
      THEN [op |-> "updateBC", rowIndex |-> headerOffset + i, values |-> <<status, subId>>]
      ELSE [op |-> "append", rowIndex |-> 0, values |-> <<email, status, subId>>]

upsertPaidUser(email, status, subscriptionId, cfg, sh, fail) ==
  IF getSheetsClient(cfg) = "threw" THEN WriteResult(TRUE, "threw", 0, NoWrite, FALSE)
  ELSE IF fail = "get" THEN WriteResult(TRUE, "built", 1, NoWrite, FALSE)
  ELSE LET w == upsertWrite(email, status, subscriptionId, sh)
       IN  IF fail = "write" THEN WriteResult(TRUE, "built", 1, w, FALSE)
           ELSE WriteResult(FALSE, "built", 1, w, TRUE)

(* Fault variant: the last row holding the id is updated, not the first. *)
updateStatusWrite_LastMatch(subscriptionId, status, allRows) ==
  LET rows         == getDataRows(allRows)
      headerOffset == Len(allRows) - Len(rows)
      subId        == trim(subscriptionId)
      hits         == {i \in 1..Len(rows) : Cell(rows[i], 3) = subId}
  IN  IF hits # {}
      THEN [op |-> "updateB", rowIndex |-> headerOffset + SetMax(hits), values |-> <<status>>]
      ELSE NoWrite

updateStatusWrite(subscriptionId, status, allRows) ==
  LET rows         == getDataRows(allRows)
      headerOffset == Len(allRows) - Len(rows)
      subId        == trim(subscriptionId)
      i            == FirstMatch(rows, 3, subId, FALSE)
  IN  IF i # 0
      THEN [op |-> "updateB", rowIndex |-> headerOffset + i, values |-> <<status>>]
      ELSE NoWrite

updateStatusBySubscriptionId(subscriptionId, status, cfg, sh, fail) ==
  IF ~truthy(subscriptionId) \/ ~truthy(status)
  THEN WriteResult(FALSE, "none", 0, NoWrite, FALSE)
  ELSE IF getSheetsClient(cfg) = "threw" THEN WriteResult(TRUE, "threw", 0, NoWrite, FALSE)
  ELSE IF fail = "get" THEN WriteResult(TRUE, "built", 1, NoWrite, FALSE)
  ELSE LET w == updateStatusWrite(subscriptionId, status, sh)
       IN  IF w.op = "none" THEN WriteResult(FALSE, "built", 1, NoWrite, FALSE)
           ELSE IF fail = "write" THEN WriteResult(TRUE, "built", 1, w, FALSE)
           ELSE WriteResult(FALSE, "built", 1, w, TRUE)

(* ------------------------------------------------------------------ *)
(* Event normalizer                                                    *)
(* ------------------------------------------------------------------ *)
RECURSIVE firstCustomField(_, _, _)
firstCustomField(customFields, k, googleAccountFieldKey) ==
  IF k > Len(customFields) THEN NULL
  ELSE LET field    == customFields[k]
           key      == IF truthy(field.key) THEN trim(field.key) ELSE EMPTY
           matchKey == ~truthy(googleAccountFieldKey) \/ key = googleAccountFieldKey
       IN  IF truthy(field.text) /\ matchKey /\ Len(trim(field.text)) > 0
           THEN trim(field.text)
           ELSE IF truthy(field.dropdown) /\ matchKey /\ Len(trim(field.dropdown)) > 0
           THEN trim(field.dropdown)
           ELSE firstCustomField(customFields, k + 1, googleAccountFieldKey)

RECURSIVE firstTextField(_, _)
firstTextField(customFields, k) ==
  IF k > Len(customFields) THEN NULL
  ELSE IF truthy(customFields[k].text) /\ Len(trim(customFields[k].text)) > 0
       THEN trim(customFields[k].text)
       ELSE firstTextField(customFields, k + 1)

nullish(a, b) == IF a # NULL THEN a ELSE b

getGoogleEmailFromSession(session, googleAccountFieldKey) ==
  LET customFields == session.custom_fields
      fallback == nullish(session.customer_email,
                    nullish(session.customer_details.email,
                      nullish(session.customer_details.customer_email, NULL)))
  IN  IF Len(customFields) > 0
      THEN LET byKey == firstCustomField(customFields, 1, googleAccountFieldKey)
           IN  IF byKey # NULL THEN byKey
               ELSE IF ~truthy(googleAccountFieldKey) /\ firstTextField(customFields, 1) # NULL
               THEN firstTextField(customFields, 1)
               ELSE fallback
      ELSE fallback

(* ------------------------------------------------------------------ *)
(* HTTP handlers.  A response is the record the handler leaves behind: *)
(* what it answered and which store calls it issued.                   *)
(* ------------------------------------------------------------------ *)
Response(kind, q, intent, email, sub, status, code, paid, rstatus, threw, client, nGet, write, applied) ==
  [kind |-> kind, q |-> q, intent |-> intent, email |-> email, sub |-> sub,
   status |-> status, code |-> code, paid |-> paid, rstatus |-> rstatus,
   threw |-> threw, client |-> client, nGet |-> nGet, write |-> write,
   applied |-> applied]

NoRequest ==
  Response("none", NULL, "none", NULL, NULL, NULL, 0, FALSE, NULL, FALSE, "none", 0, NoWrite, FALSE)

(* Fault variant: no early return on an empty email; the lookup goes to *)
(* the store first, as upsertPaidUser does.                             *)
appGetCheck_NoShortCircuit(q, cfg, sh, fail) ==
  IF getSheetsClient(cfg) = "threw" \/ fail = "get"
  THEN Response("check", q, "none", NULL, NULL, NULL, 200, FALSE, NULL,
                TRUE, getSheetsClient(cfg), IF getSheetsClient(cfg) = "built" THEN 1 ELSE 0,
                NoWrite, FALSE)
  ELSE LET rows == getDataRows(valuesGetAB(sh))
           i    == FirstMatch(rows, 1, toLowerCase(IF truthy(q) THEN trim(q) ELSE EMPTY), TRUE)
           st   == IF i = 0 THEN NULL
                   ELSE IF truthy(Cell(rows[i], 2)) THEN Cell(rows[i], 2) ELSE STATUS_ACTIVE
       IN  Response("check", q, "none", NULL, NULL, NULL, 200,
                    i # 0 /\ toLowerCase(st) = STATUS_ACTIVE, st,
                    FALSE, "built", 1, NoWrite, FALSE)

(* Fault variant: no try/catch around the lookup; a throw answers 500.   *)
appGetCheck_NoCatch(q, cfg, sh, fail) ==
  LET email == IF truthy(q) THEN trim(q) ELSE EMPTY
  IN  IF ~truthy(email)
      THEN Response("check", q, "none", NULL, NULL, NULL, 200, FALSE, NULL,
                    FALSE, "none", 0, NoWrite, FALSE)
      ELSE LET r == checkPaidUserEmail(email, cfg, sh, fail)
           IN  Response("check", q, "none", NULL, NULL, NULL,
                        IF r.threw THEN 500 ELSE 200, r.paid,
                        IF truthy(r.status) THEN r.status ELSE NULL,
                        r.threw, r.client, r.nGet, NoWrite, FALSE)

appGetCheck(q, cfg, sh, fail) ==
  LET email == IF truthy(q) THEN trim(q) ELSE EMPTY
  IN  IF ~truthy(email)
      THEN Response("check", q, "none", NULL, NULL, NULL, 200, FALSE, NULL,
                    FALSE, "none", 0, NoWrite, FALSE)
      ELSE LET r == checkPaidUserEmail(email, cfg, sh, fail)
           IN  IF r.threw
               THEN Response("check", q, "none", NULL, NULL, NULL, 200, FALSE, NULL,
                             TRUE, r.client, r.nGet, NoWrite, FALSE)
               ELSE Response("check", q, "none", NULL, NULL, NULL, 200, r.paid,
                             IF truthy(r.status) THEN r.status ELSE NULL,
                             FALSE, r.client, r.nGet, NoWrite, FALSE)

Rejected(code) ==
  Response("webhook", NULL, "Rejected", NULL, NULL, NULL, code, FALSE, NULL,
           FALSE, "none", 0, NoWrite, FALSE)

Ignored ==
  Response("webhook", NULL, "Ignore", NULL, NULL, NULL, 200, FALSE, NULL,
           FALSE, "none", 0, NoWrite, FALSE)

(* Fault variant: a throw of the store step is swallowed and answered 200. *)
Stored_AlwaysOk(intent, email, sub, status, r) ==
  Response("webhook", NULL, intent, email, sub, status,
           200, FALSE, NULL,
           r.threw, r.client, r.nGet, r.write, r.applied)

Stored(intent, email, sub, status, r) ==
  Response("webhook", NULL, intent, email, sub, status,
           IF r.threw THEN 500 ELSE 200, FALSE, NULL,
           r.threw, r.client, r.nGet, r.write, r.applied)

(* Fault variant: no guard on an unresolved email; the upsert runs with *)
(* whatever the session yielded.                                        *)
checkoutSessionCompleted_NoEmailGuard(event, cfg, sh, fail) ==
  IF ~event.hasObject THEN Ignored
  ELSE LET session == event.object
           email   == getGoogleEmailFromSession(session, cfg.googleAccountFieldKey)
           normalized == IF truthy(email) THEN toLowerCase(trim(email)) ELSE EMPTY
           subscriptionId == IF truthy(session.subscription)
                             THEN session.subscription ELSE EMPTY
       IN  Stored("Activate", normalized, subscriptionId, STATUS_ACTIVE,
                  upsertPaidUser(normalized, STATUS_ACTIVE, subscriptionId,
                                 cfg, sh, fail))

checkoutSessionCompleted(event, cfg, sh, fail) ==
  IF ~event.hasObject THEN Ignored
  ELSE LET session == event.object
           email   == getGoogleEmailFromSession(session, cfg.googleAccountFieldKey)
       IN  IF ~truthy(email) THEN Ignored
           ELSE LET normalized == toLowerCase(trim(email))
                IN  IF Len(normalized) = 0 THEN Ignored
                    ELSE LET subscriptionId == IF truthy(session.subscription)
                                               THEN session.subscription ELSE EMPTY
                         IN  Stored("Activate", normalized, subscriptionId, STATUS_ACTIVE,
                                    upsertPaidUser(normalized, STATUS_ACTIVE, subscriptionId,
                                                   cfg, sh, fail))

customerSubscriptionUpdated(event, cfg, sh, fail) ==
  IF ~event.hasObject \/ ~truthy(event.object.id) THEN Ignored
  ELSE LET subId  == event.object.id
           status == IF truthy(event.object.status) THEN event.object.status ELSE EMPTY
       IN  Stored("UpdateStatus", NULL, subId, status,
                  updateStatusBySubscriptionId(subId, status, cfg, sh, fail))

customerSubscriptionDeleted(event, cfg, sh, fail) ==
  IF ~event.hasObject \/ ~truthy(event.object.id) THEN Ignored
  ELSE LET subId == event.object.id
       IN  Stored("UpdateStatus", NULL, subId, STATUS_CANCELED,
                  updateStatusBySubscriptionId(subId, STATUS_CANCELED, cfg, sh, fail))

appPostWebhook(req, cfg, sh, fail) ==
  IF ~req.body THEN Rejected(400)
  ELSE IF ~req.sig \/ ~cfg.stripeWebhookSecret THEN Rejected(400)
  ELSE IF ~req.verified THEN Rejected(400)
  ELSE LET event == req.event
       IN  IF event.type = "checkout.session.completed"
           THEN checkoutSessionCompleted(event, cfg, sh, fail)
           ELSE IF event.type = "customer.subscription.updated"
           THEN customerSubscriptionUpdated(event, cfg, sh, fail)
           ELSE IF event.type = "customer.subscription.deleted"
           THEN customerSubscriptionDeleted(event, cfg, sh, fail)
           ELSE Ignored

(* ------------------------------------------------------------------ *)
(* Inputs                                                              *)
(* ------------------------------------------------------------------ *)
E_A == <<"a", "@", "x">>

E_A_VARIANT == <<" ", "A", "@", "X", " ">>

E_M == <<"e", "m", "a", "i", "l", "@", "x">>

E_M_VARIANT == <<"E", "m", "a", "i", "l", "@", "x", " ">>

E_UNKNOWN == <<"b", "@", "x">>

BLANK == <<" ">>

SUB_1 == <<"s", "u", "b", "_", "1">>

SUB_1_PADDED == <<" ", "s", "u", "b", "_", "1">>

SUB_2 == <<"s", "u", "b", "_", "2">>

STATUS_ACTIVE_VARIANT == <<"A", "c", "t", "i", "v", "e", " ">>

KEY_GOOGLE == <<"g", "o", "o", "g", "l", "e">>

KEY_OTHER == <<"o", "t", "h", "e", "r">>

HeaderRow == << <<"E", "m", "a", "i", "l">>, <<"s", "t", "a", "t", "u", "s">>, <<"i", "d">> >>

Queries == {NULL, EMPTY, BLANK, E_A_VARIANT, E_M, E_M_VARIANT, E_UNKNOWN}

Field(key, text, dropdown) == [key |-> key, text |-> text, dropdown |-> dropdown]

Session(customFields, customerEmail, detailsEmail, detailsCustomerEmail, subscription) ==
  [custom_fields |-> customFields, customer_email |-> customerEmail,
   customer_details |-> [email |-> detailsEmail, customer_email |-> detailsCustomerEmail],
   subscription |-> subscription, id |-> NULL, status |-> NULL]

Subscription(id, status) ==
  [custom_fields |-> <<>>, customer_email |-> NULL,
   customer_details |-> [email |-> NULL, customer_email |-> NULL],
   subscription |-> NULL, id |-> id, status |-> status]

Sessions ==
  { Session(<<Field(KEY_GOOGLE, E_A_VARIANT, NULL)>>, NULL, NULL, NULL, SUB_1),
    Session(<<Field(KEY_OTHER, NULL, E_M), Field(KEY_GOOGLE, E_A, NULL)>>, E_A, NULL, NULL, NULL),
    Session(<<>>, E_M_VARIANT, NULL, NULL, SUB_1_PADDED),
    Session(<<Field(KEY_OTHER, BLANK, NULL)>>, NULL, E_A, NULL, NULL),
    Session(<<>>, EMPTY, E_A, NULL, SUB_1),
    Session(<<>>, NULL, NULL, E_M, SUB_1),
    Session(<<>>, NULL, NULL, NULL, SUB_1) }

SubscriptionIds == {SUB_1, SUB_1_PADDED, SUB_2, BLANK}

SubscriptionStatuses == {NULL, STATUS_CANCELED, STATUS_ACTIVE_VARIANT, BLANK}

Subscriptions ==
  { Subscription(SUB_1, st) : st \in SubscriptionStatuses }
  \cup { Subscription(id, STATUS_CANCELED) : id \in SubscriptionIds \cup {NULL, EMPTY} }

Deletions ==
  { Subscription(id, STATUS_ACTIVE) : id \in SubscriptionIds \cup {NULL} }

Event(type, hasObject, object) == [type |-> type, hasObject |-> hasObject, object |-> object]

Events ==
  { Event("checkout.session.completed", TRUE, o) : o \in Sessions }
  \cup { Event("customer.subscription.updated", TRUE, o) : o \in Subscriptions }
  \cup { Event("customer.subscription.deleted", TRUE, o) : o \in Deletions }
  \cup { Event(t, FALSE, Subscription(NULL, NULL)) :
           t \in {"checkout.session.completed", "customer.subscription.updated",
                  "customer.subscription.deleted"} }
  \cup { Event(t, TRUE, Subscription(SUB_1, STATUS_CANCELED)) :
           t \in {"customer.deleted", "invoice.paid"} }

Request(body, sig, verified, event) ==
  [body |-> body, sig |-> sig, verified |-> verified, event |-> event]

RejectedRequests ==
  LET e == Event("customer.subscription.deleted", TRUE, Subscription(SUB_1, STATUS_ACTIVE))
  IN  { Request(FALSE, TRUE, TRUE, e), Request(TRUE, FALSE, TRUE, e),
        Request(TRUE, TRUE, FALSE, e) }

Requests == { Request(TRUE, TRUE, TRUE, e) : e \in Events } \cup RejectedRequests

Failures == {"none", "get", "write"}

Config(secret, sheetId, credentials, fieldKey) ==
  [stripeWebhookSecret |-> secret, spreadsheetId |-> sheetId,
   credentialsJson |-> credentials, googleAccountFieldKey |-> fieldKey]

Configs ==
  { Config(TRUE, TRUE, "valid", EMPTY),
    Config(FALSE, TRUE, "valid", EMPTY),
    Config(TRUE, FALSE, "valid", EMPTY),
    Config(TRUE, TRUE, "missing", EMPTY),
    Config(TRUE, TRUE, "invalid", EMPTY) }

(* ------------------------------------------------------------------ *)
(* State machine: requests are served one at a time, each handler      *)
(* running to completion.                                              *)
(* ------------------------------------------------------------------ *)
NoPending == <<>>

EmptySheets == { <<>>, <<HeaderRow>> }

LegacyRow(email) == <<email, EMPTY, EMPTY>>

LegacySheets ==
  EmptySheets \cup { <<LegacyRow(E_A)>>, <<HeaderRow, LegacyRow(E_A)>>,
                     <<LegacyRow(E_A), LegacyRow(E_M)>> }

Init ==
  /\ sheet \in EmptySheets
  /\ config \in Configs
  /\ last = NoRequest
  /\ pending = NoPending

InitLegacy ==
  /\ sheet \in LegacySheets
  /\ config \in Configs
  /\ last = NoRequest
  /\ pending = NoPending

Check ==
  \E q \in Queries, fail \in Failures :
    /\ last' = appGetCheck(q, config, sheet, fail)
    /\ UNCHANGED <<sheet, config, pending>>

Webhook ==
  \E req \in Requests, fail \in Failures :
    LET r == appPostWebhook(req, config, sheet, fail)
    IN  /\ sheet' = storeAfter(sheet, r)
        /\ Len(sheet') <= MaxRows
        /\ last' = r
        /\ UNCHANGED <<config, pending>>

Next == Check \/ Webhook

Spec == Init /\ [][Next]_vars

SpecLegacy == InitLegacy /\ [][Next]_vars

(* ------------------------------------------------------------------ *)
(* Email resolution: checkout sessions over every short list of custom *)
(* fields and every combination of fallback candidates, posted to a    *)
(* server with and without GOOGLE_ACCOUNT_FIELD_KEY.  The response     *)
(* keeps the session it answered.                                      *)
(* ------------------------------------------------------------------ *)
ResolveFields ==
  { Field(KEY_GOOGLE, E_A_VARIANT, NULL),
    Field(KEY_OTHER, NULL, E_M),
    Field(KEY_OTHER, BLANK, NULL),
    Field(KEY_OTHER, E_UNKNOWN, BLANK) }

FieldLists ==
  {<<>>} \cup { <<f>> : f \in ResolveFields }
         \cup { <<f, g>> : f \in ResolveFields, g \in ResolveFields }

ResolveSessions ==
  { Session(fl, NULL, NULL, NULL, NULL) : fl \in FieldLists }
  \cup { Session(fl, c1, c2, c3, NULL) :
           fl \in {<<>>, <<Field(KEY_OTHER, BLANK, NULL)>>},
           c1 \in {NULL, EMPTY, BLANK, E_A},
           c2 \in {NULL, EMPTY, E_M_VARIANT},
           c3 \in {NULL, E_UNKNOWN} }

ResolveConfigs ==
  { Config(TRUE, TRUE, "valid", EMPTY), Config(TRUE, TRUE, "valid", KEY_GOOGLE) }

InitResolve ==
  /\ sheet \in EmptySheets
  /\ config \in ResolveConfigs
  /\ last = NoRequest
  /\ pending = NoPending

Checkout ==
  \E session \in ResolveSessions :
    LET event == Event("checkout.session.completed", TRUE, session)
        r     == appPostWebhook(Request(TRUE, TRUE, TRUE, event), config, sheet, "none")
    IN  /\ sheet' = storeAfter(sheet, r)
        /\ Len(sheet') <= MaxRows
        /\ last' = [r EXCEPT !.q = session]
        /\ UNCHANGED <<config, pending>>

SpecResolve == InitResolve /\ [][Checkout]_vars

(* ------------------------------------------------------------------ *)
(* Concurrent webhook requests.  The handlers are async functions: a   *)
(* request gives up control at each awaited store call, so between the *)
(* values.get of one request and its update / append the store calls   *)
(* of another request may run.  Two verified events are in flight;     *)
(* each takes two steps, its get (with the scan that follows it) and   *)
(* its write.  `pending` keeps the sheet the two requests started      *)
(* from and the order of the store calls, for the properties.          *)
(* ------------------------------------------------------------------ *)
Racers == {1, 2}

Intent(intent, email, sub, status) ==
  [intent |-> intent, email |-> email, sub |-> sub, status |-> status]

ConcurrentIntents ==
  { Intent("Activate", E_A, SUB_1, STATUS_ACTIVE),
    Intent("Activate", E_A, SUB_2, STATUS_ACTIVE),
    Intent("Activate", E_UNKNOWN, SUB_2, STATUS_ACTIVE),
    Intent("UpdateStatus", NULL, SUB_1, STATUS_CANCELED),
    Intent("UpdateStatus", NULL, SUB_1, STATUS_ACTIVE),
    Intent("UpdateStatus", NULL, SUB_2, STATUS_CANCELED) }

ConcurrentSheets ==
  EmptySheets \cup { << <<E_A, STATUS_ACTIVE, SUB_1>> >>,
                     << <<E_A, STATUS_CANCELED, SUB_1>> >>,
                     << HeaderRow, <<E_A, STATUS_CANCELED, SUB_1>> >>,
                     << <<E_A, STATUS_ACTIVE, EMPTY>> >> }

Received(i) == [intent |-> i.intent, email |-> i.email, sub |-> i.sub,
                status |-> i.status, pc |-> "received", write |-> NoWrite]

storeWriteOf(req, allRows) ==
  IF req.intent = "Activate"
  THEN upsertWrite(req.email, req.status, req.sub, allRows)
  ELSE IF ~truthy(req.sub) \/ ~truthy(req.status) THEN NoWrite
  ELSE updateStatusWrite(req.sub, req.status, allRows)

Answered(req, w, applied) ==
  Stored(req.intent, req.email, req.sub, req.status,
         WriteResult(FALSE, "built", 1, w, applied))

InitConcurrent ==
  /\ sheet \in ConcurrentSheets
  /\ config = Config(TRUE, TRUE, "valid", EMPTY)
  /\ last = NoRequest
  /\ \E i1 \in ConcurrentIntents, i2 \in ConcurrentIntents :
       pending = [start |-> sheet, steps |-> <<>>,
                  reqs |-> <<Received(i1), Received(i2)>>]

ConcGet(p) ==
  LET req == pending.reqs[p]
      w   == storeWriteOf(req, sheet)
  IN  /\ req.pc = "received"
      /\ pending' = [pending EXCEPT
                       !.steps = Append(@, <<p, "get">>),
                       !.reqs[p].write = w,
                       !.reqs[p].pc = IF w.op = "none" THEN "done" ELSE "read"]
      /\ last' = IF w.op = "none" THEN Answered(req, w, FALSE) ELSE last
      /\ UNCHANGED <<sheet, config>>

ConcWrite(p) ==
  LET req == pending.reqs[p]
  IN  /\ req.pc = "read"
      /\ sheet' = valuesWrite(sheet, req.write)
      /\ pending' = [pending EXCEPT
                       !.steps = Append(@, <<p, "write">>),
                       !.reqs[p].pc = "done"]
      /\ last' = Answered(req, req.write, TRUE)
      /\ UNCHANGED config

NextConcurrent == \E p \in Racers : ConcGet(p) \/ ConcWrite(p)

SpecConcurrent == InitConcurrent /\ [][NextConcurrent]_vars

(* ------------------------------------------------------------------ *)
(* Vocabulary of the properties                                        *)
(* ------------------------------------------------------------------ *)
normalizedEmail(s) == toLowerCase(trim(s))

IsQuery == last.kind = "check"

QueryRead == IsQuery /\ last.nGet = 1 /\ ~last.threw

IsIntent(intent) == last.kind = "webhook" /\ last.intent = intent

Succeeded == last.code = 200 /\ ~last.threw

RowsWithEmail(rows, email) ==
  {i \in 1..Len(rows) : normalizedEmail(rows[i][1]) = normalizedEmail(email)}

(* ------------------------------------------------------------------ *)
(* C1  Read-after-write: right after a successful Activate(E, S), a    *)
(* query on E answers paid = true with status "active".                *)
(* ------------------------------------------------------------------ *)
C1_ReadAfterWrite ==
  (IsIntent("Activate") /\ Succeeded)
    => LET answer == appGetCheck(last.email, config, sheet, "none")
       IN  answer.paid /\ answer.rstatus = STATUS_ACTIVE

(* ------------------------------------------------------------------ *)
(* C2  Idempotence: applying the intent that was just applied a second *)
(* time leaves the sheet exactly as the first application left it.     *)
(* ------------------------------------------------------------------ *)
C2_Idempotent ==
  /\ (IsIntent("Activate") /\ Succeeded)
       => storeAfter(sheet, upsertPaidUser(last.email, last.status, last.sub,
                                           config, sheet, "none")) = sheet
  /\ (IsIntent("UpdateStatus") /\ Succeeded)
       => storeAfter(sheet, updateStatusBySubscriptionId(last.sub, last.status,
                                                         config, sheet, "none")) = sheet

(* ------------------------------------------------------------------ *)
(* C3  Email uniqueness: no two rows of the sheet hold the same        *)
(* trimmed, lower-cased email in column A.                             *)
(* ------------------------------------------------------------------ *)
C3_EmailUnique ==
  \A i, j \in 1..Len(sheet) :
    i # j => normalizedEmail(sheet[i][1]) # normalizedEmail(sheet[j][1])

(* ------------------------------------------------------------------ *)
(* C4  Subscription-id uniqueness: no two data rows hold the same      *)
(* non-empty subscription id in column C.                              *)
(* ------------------------------------------------------------------ *)
C4_SubscriptionIdUnique ==
  LET rows == getDataRows(sheet)
  IN  \A i, j \in 1..Len(rows) :
        (i # j /\ rows[i][3] # EMPTY) => rows[i][3] # rows[j][3]

(* ------------------------------------------------------------------ *)
(* C5  Paid predicate.  As claimed: the answer is computed from the    *)
(* first matching data row's status cell as stored; a non-empty cell   *)
(* gives paid exactly when its lower-cased value is "active" and is    *)
(* reported as stored, an empty cell gives paid with status "active",  *)
(* and no match gives not paid and no status.                          *)
(* ------------------------------------------------------------------ *)
PaidAnswer(cell) ==
  IF cell # EMPTY
  THEN last.paid = (toLowerCase(cell) = STATUS_ACTIVE) /\ last.rstatus = cell
  ELSE last.paid /\ last.rstatus = STATUS_ACTIVE

C5_PaidPredicateAsStored ==
  QueryRead =>
    LET rows == getDataRows(sheet)
        hits == RowsWithEmail(rows, last.q)
    IN  IF hits = {} THEN ~last.paid /\ last.rstatus = NULL
        ELSE PaidAnswer(rows[SetMin(hits)][2])

(* C5 as amended: the same rule applied to the status cell after       *)
(* trimming, so a cell holding only whitespace counts as empty and a   *)
(* padded status is reported without its padding.                      *)
C5_PaidPredicate ==
  QueryRead =>
    LET rows == getDataRows(sheet)
        hits == RowsWithEmail(rows, last.q)
    IN  IF hits = {} THEN ~last.paid /\ last.rstatus = NULL
        ELSE PaidAnswer(trim(rows[SetMin(hits)][2]))

C5_Witness ==
  /\ QueryRead
  /\ \E i \in 1..Len(sheet) : sheet[i][2] = STATUS_ACTIVE_VARIANT
  /\ last.paid
  /\ last.rstatus = trim(STATUS_ACTIVE_VARIANT)

(* ------------------------------------------------------------------ *)
(* C6  GET /check answers paid = true whenever the queried email is    *)
(* present in column A of a data row, whatever the row's other cells.  *)
(* ------------------------------------------------------------------ *)
C6_PresentMeansPaid ==
  (QueryRead /\ RowsWithEmail(getDataRows(sheet), last.q) # {}) => last.paid

(* ------------------------------------------------------------------ *)
(* C7  Email matching ignores case and surrounding whitespace: a query *)
(* for an email some stored row holds (up to case and padding) matches *)
(* a row, and Activate for such an email appends no row.               *)
(* ------------------------------------------------------------------ *)
C7_EmailMatching ==
  [][ /\ (last'.kind = "check" /\ last'.nGet = 1 /\ ~last'.threw
            /\ RowsWithEmail(sheet, last'.q) # {})
        => last'.rstatus # NULL
      /\ (last'.kind = "webhook" /\ last'.intent = "Activate" /\ last'.code = 200
            /\ RowsWithEmail(sheet, last'.email) # {})
        => Len(sheet') = Len(sheet) ]_vars

(* ------------------------------------------------------------------ *)
(* C8  A query whose email is absent, empty or whitespace answers      *)
(* {paid: false} and makes no store call: no client, no read, no write.*)
(* ------------------------------------------------------------------ *)
BlankQuery == IsQuery /\ (last.q = NULL \/ trim(last.q) = EMPTY)

C8_BlankQueryNoStore ==
  BlankQuery =>
    /\ last.code = 200 /\ ~last.paid /\ last.rstatus = NULL
    /\ last.client = "none" /\ last.nGet = 0 /\ last.write = NoWrite

C8_Witness == BlankQuery /\ last.q = BLANK /\ Len(getDataRows(sheet)) > 0

(* ------------------------------------------------------------------ *)
(* C9  A query whose store client or store read fails still answers    *)
(* 200 {paid: false} without a status and leaves the sheet unchanged;  *)
(* no query is ever answered with an error code.                       *)
(* ------------------------------------------------------------------ *)
C9_QueryFailureDegrades ==
  [][ last'.kind = "check" =>
        /\ last'.code = 200
        /\ sheet' = sheet
        /\ last'.threw => (~last'.paid /\ last'.rstatus = NULL) ]_vars

C9_Witness ==
  IsQuery /\ last.threw /\ last.nGet = 1 /\ Len(getDataRows(sheet)) > 0

(* ------------------------------------------------------------------ *)
(* C10  UpdateStatus on an id no row holds is a no-op: when the store  *)
(* answers, no write is issued and the webhook answers 200.            *)
(* ------------------------------------------------------------------ *)
HoldsSubscriptionId(row, id) == row[3] # EMPTY /\ trim(row[3]) = trim(id)

C10_UnknownIdNoOp ==
  (IsIntent("UpdateStatus") /\ ~last.threw
     /\ \A i \in 1..Len(sheet) : ~HoldsSubscriptionId(sheet[i], last.sub))
    => (last.write = NoWrite /\ ~last.applied /\ last.code = 200)

(* ------------------------------------------------------------------ *)
(* C11  Subscription lifecycle: while a row reads [E, "active", S]     *)
(* with S non-empty, a subscription event with id S and a non-empty    *)
(* status X (X = "canceled" for a deletion) that answers 200 turns     *)
(* the row into [E, X, S], and a query on E then reports status X,     *)
(* paid exactly when X is "active".                                    *)
(* ------------------------------------------------------------------ *)
C11_Lifecycle ==
  [][ \A i \in 1..Len(sheet) :
        ( /\ sheet[i][2] = STATUS_ACTIVE
          /\ sheet[i][3] # EMPTY
          /\ last'.kind = "webhook" /\ last'.intent = "UpdateStatus"
          /\ last'.code = 200
          /\ last'.sub = sheet[i][3]
          /\ truthy(last'.status) )
        => /\ sheet'[i] = <<sheet[i][1], last'.status, sheet[i][3]>>
           /\ LET answer == appGetCheck(sheet[i][1], config, sheet', "none")
              IN  /\ answer.rstatus = last'.status
                  /\ answer.paid = (last'.status = STATUS_ACTIVE) ]_vars

(* ------------------------------------------------------------------ *)
(* C12  Webhook response protocol: the answer is 400 exactly for an    *)
(* empty body, a missing signature or secret, or a failed              *)
(* verification; 500 exactly when the store step of a verified         *)
(* checkout / subscription event throws; 200 otherwise.  A request     *)
(* reads the store at most once and a write that threw is not applied. *)
(* ------------------------------------------------------------------ *)
BadRequest(req, cfg) ==
  ~req.body \/ ~req.sig \/ ~cfg.stripeWebhookSecret \/ ~req.verified

StoreEventTypes ==
  {"checkout.session.completed", "customer.subscription.updated",
   "customer.subscription.deleted"}

C12_ResponseProtocol ==
  /\ \A req \in Requests, fail \in Failures :
       LET r == appPostWebhook(req, config, sheet, fail)
       IN  /\ r.code \in {200, 400, 500}
           /\ (r.code = 400) <=> BadRequest(req, config)
           /\ (r.code = 500) <=> ( /\ ~BadRequest(req, config)
                                   /\ req.event.type \in StoreEventTypes
                                   /\ r.threw )
           /\ r.nGet <= 1
           /\ r.threw => storeAfter(sheet, r) = sheet
  /\ last.kind = "webhook" =>
       /\ last.nGet <= 1
       /\ last.threw => (last.code = 500 /\ ~last.applied)

C12_Witness ==
  /\ IsIntent("UpdateStatus")
  /\ last.code = 500
  /\ last.write.op = "updateB"
  /\ ~last.applied

(* ------------------------------------------------------------------ *)
(* C13  A webhook request that is rejected, or whose event maps to     *)
(* Ignore, builds no store client, reads nothing and writes nothing:   *)
(* the sheet after the request is the sheet before it.                 *)
(* ------------------------------------------------------------------ *)
NoResolvableEmail(session, cfg) ==
  LET email == getGoogleEmailFromSession(session, cfg.googleAccountFieldKey)
  IN  ~truthy(email) \/ trim(email) = EMPTY

MapsToIgnore(event, cfg) ==
  \/ event.type \notin StoreEventTypes
  \/ ~event.hasObject
  \/ /\ event.type \in {"customer.subscription.updated", "customer.subscription.deleted"}
     /\ ~truthy(event.object.id)
  \/ /\ event.type = "checkout.session.completed"
     /\ NoResolvableEmail(event.object, cfg)

C13_NoStoreAccess ==
  /\ \A req \in Requests, fail \in Failures :
       LET r == appPostWebhook(req, config, sheet, fail)
       IN  (BadRequest(req, config) \/ MapsToIgnore(req.event, config))
             => /\ r.client = "none" /\ r.nGet = 0 /\ r.write = NoWrite
                /\ ~r.threw
                /\ storeAfter(sheet, r) = sheet
  /\ (IsIntent("Ignore") \/ IsIntent("Rejected"))
       => (last.client = "none" /\ last.nGet = 0 /\ last.write = NoWrite)

C13_Witness ==
  /\ IsIntent("Ignore")
  /\ last.nGet = 0
  /\ Len(getDataRows(sheet)) > 0

(* ------------------------------------------------------------------ *)
(* C14  With no field key configured, a session whose custom fields    *)
(* include a text field with a non-blank value resolves to the value   *)
(* of the first such text field, whatever dropdown fields precede it.  *)
(* ------------------------------------------------------------------ *)
NonBlank(v) == truthy(v) /\ trim(v) # EMPTY

TextFields(customFields) ==
  {k \in 1..Len(customFields) : NonBlank(customFields[k].text)}

IsCheckout == last.kind = "webhook" /\ last.intent \in {"Activate", "Ignore"}

C14_FirstTextField ==
  (IsCheckout /\ ~truthy(config.googleAccountFieldKey)
     /\ TextFields(last.q.custom_fields) # {})
    => LET fields == last.q.custom_fields
           first  == fields[SetMin(TextFields(fields))].text
       IN  /\ getGoogleEmailFromSession(last.q, config.googleAccountFieldKey) = trim(first)
           /\ last.intent = "Activate"
           /\ last.email = normalizedEmail(first)

(* ------------------------------------------------------------------ *)
(* C15  Fallback chain: when no custom field yields an email, the      *)
(* event becomes Activate with the first of customer_email,            *)
(* customer_details.email, customer_details.customer_email that is     *)
(* non-blank, and Ignore only when all three are absent or blank.      *)
(* ------------------------------------------------------------------ *)
NoFieldYields(session, googleAccountFieldKey) ==
  \A k \in 1..Len(session.custom_fields) :
    LET field == session.custom_fields[k]
    IN  \/ ~NonBlank(field.text) /\ ~NonBlank(field.dropdown)
        \/ /\ truthy(googleAccountFieldKey)
           /\ field.key # googleAccountFieldKey
           /\ ~NonBlank(field.text)

Candidates(session) ==
  <<session.customer_email, session.customer_details.email,
    session.customer_details.customer_email>>

C15_FallbackChain ==
  (IsCheckout /\ NoFieldYields(last.q, config.googleAccountFieldKey))
    => LET cands == Candidates(last.q)
           live  == {k \in 1..Len(cands) : NonBlank(cands[k])}
       IN  IF live = {} THEN last.intent = "Ignore"
           ELSE /\ last.intent = "Activate"
                /\ last.email = normalizedEmail(cands[SetMin(live)])

(* ------------------------------------------------------------------ *)
(* C16  Header handling: when the first cell of row 1 contains         *)
(* "email" (any case), row 1 is matched by no query, Activate or       *)
(* UpdateStatus and is never modified, and an update that matched the  *)
(* i-th data row is written to sheet row i + 1; without a header it is *)
(* written to sheet row i.  The row written is the row that matched.   *)
(* ------------------------------------------------------------------ *)
HasHeader(rows) ==
  Len(rows) > 0 /\ includes(toLowerCase(rows[1][1]), HEADER_MARK)

DataRowsOf(rows) == IF HasHeader(rows) THEN SubSeq(rows, 2, Len(rows)) ELSE rows

RowsWithSubscriptionId(rows, id) ==
  {i \in 1..Len(rows) : trim(rows[i][3]) = trim(id)}

C16_HeaderHandling ==
  [][ LET offset == IF HasHeader(sheet) THEN 1 ELSE 0
          data   == DataRowsOf(sheet)
          hits   == IF last'.intent = "Activate"
                    THEN RowsWithEmail(data, last'.email)
                    ELSE RowsWithSubscriptionId(data, last'.sub)
      IN  /\ HasHeader(sheet) => (Len(sheet') >= 1 /\ sheet'[1] = sheet[1])
          /\ (last'.kind = "check" /\ last'.rstatus # NULL)
               => RowsWithEmail(data, last'.q) # {}
          /\ (last'.kind = "webhook" /\ last'.write.op \in {"updateBC", "updateB"})
               => /\ hits # {}
                  /\ last'.write.rowIndex = SetMin(hits) + offset
          /\ (last'.kind = "webhook" /\ last'.write.op = "append")
               => hits = {} ]_vars

C16_Witness ==
  /\ HasHeader(sheet)
  /\ sheet[1] = HeaderRow
  /\ last.kind = "webhook"
  /\ last.applied
  /\ last.write.op \in {"updateBC", "updateB"}
  /\ last.write.rowIndex = 3

(* ------------------------------------------------------------------ *)
(* C17  Activate on an existing record: when a data row matches E,     *)
(* Activate(E, S) writes "active" and S trimmed (also an empty S) to   *)
(* the first matching row, whatever it held, keeps that row's email    *)
(* cell and every other row, and appends nothing.                      *)
(* ------------------------------------------------------------------ *)
C17_ActivateExisting ==
  [][ LET data   == getDataRows(sheet)
          offset == Len(sheet) - Len(data)
          hits   == RowsWithEmail(data, last'.email)
      IN  (last'.kind = "webhook" /\ last'.intent = "Activate" /\ last'.code = 200
             /\ hits # {})
            => LET p == SetMin(hits) + offset
               IN  sheet' = [sheet EXCEPT ![p] = <<sheet[p][1], STATUS_ACTIVE,
                                                   trim(last'.sub)>>] ]_vars

C17_Witness ==
  /\ IsIntent("Activate")
  /\ last.applied
  /\ last.write.op = "updateBC"
  /\ last.sub = EMPTY
  /\ Len(getDataRows(sheet)) >= 2

(* ------------------------------------------------------------------ *)
(* C18  UpdateStatus frame: when some data row holds id S in column C, *)
(* UpdateStatus(S, status) with a non-empty status sets the status     *)
(* cell of the first such row and changes nothing else: not that row's *)
(* email or id, no other row, not the number of rows.                  *)
(* ------------------------------------------------------------------ *)
C18_UpdateStatusFrame ==
  [][ LET data   == getDataRows(sheet)
          offset == Len(sheet) - Len(data)
          hits   == {i \in 1..Len(data) : HoldsSubscriptionId(data[i], last'.sub)}
      IN  (last'.kind = "webhook" /\ last'.intent = "UpdateStatus" /\ last'.code = 200
             /\ truthy(last'.status) /\ hits # {})
            => LET p == SetMin(hits) + offset
               IN  sheet' = [sheet EXCEPT ![p] = <<sheet[p][1], last'.status,
                                                   sheet[p][3]>>] ]_vars

C18_Witness ==
  /\ IsIntent("UpdateStatus")
  /\ last.applied
  /\ \E i, j \in 1..Len(sheet) :
       /\ i < j
       /\ HoldsSubscriptionId(sheet[i], last.sub)
       /\ HoldsSubscriptionId(sheet[j], last.sub)
       /\ sheet[i][2] = last.status
       /\ sheet[j][2] # last.status

(* ------------------------------------------------------------------ *)
(* Vocabulary of the concurrency properties                            *)
(* ------------------------------------------------------------------ *)
AllDone == \A p \in Racers : pending.reqs[p].pc = "done"

Serve(req, sh) == valuesWrite(sh, storeWriteOf(req, sh))

SerialOutcomes ==
  { Serve(pending.reqs[2], Serve(pending.reqs[1], pending.start)),
    Serve(pending.reqs[1], Serve(pending.reqs[2], pending.start)) }

GetsFirst ==
  /\ Len(pending.steps) >= 2
  /\ pending.steps[1][2] = "get"
  /\ pending.steps[2][2] = "get"

LastWriter == pending.steps[Len(pending.steps)][1]

FirstRowWithEmail(rows, email) ==
  IF RowsWithEmail(rows, email) = {} THEN 0 ELSE SetMin(RowsWithEmail(rows, email))

FirstRowWithSubscriptionId(rows, id) ==
  IF RowsWithSubscriptionId(rows, id) = {} THEN 0
  ELSE SetMin(RowsWithSubscriptionId(rows, id))

(* Two Activate intents for one email that no data row holds yet.      *)
RacingActivations ==
  LET a == pending.reqs[1]
      b == pending.reqs[2]
  IN  /\ a.intent = "Activate" /\ b.intent = "Activate"
      /\ normalizedEmail(a.email) = normalizedEmail(b.email)
      /\ RowsWithEmail(getDataRows(pending.start), a.email) = {}

(* Activate(E, S) and UpdateStatus(S1, X) on the one row that holds E  *)
(* and S1, where the activation changes the id or the status.          *)
ActivationAgainstUpdate(p, q) ==
  LET a    == pending.reqs[p]
      u    == pending.reqs[q]
      data == getDataRows(pending.start)
      i    == FirstRowWithEmail(data, a.email)
  IN  /\ a.intent = "Activate" /\ u.intent = "UpdateStatus"
      /\ i # 0
      /\ i = FirstRowWithSubscriptionId(data, u.sub)
      /\ u.status # a.status
      /\ trim(a.sub) # trim(u.sub)

(* ------------------------------------------------------------------ *)
(* C19  Lost update under concurrency: two intents on the same row,    *)
(* each with its get and its later write as separate steps, can end in *)
(* a sheet that neither serial order produces.  This happens exactly   *)
(* when both gets precede both writes and either both intents activate *)
(* one email no data row holds yet (two rows appended), or an          *)
(* activation and a status update hit one row and the status update    *)
(* writes last (the row keeps the new id with the stale status).       *)
(* ------------------------------------------------------------------ *)
C19_LostUpdate ==
  AllDone =>
    ( sheet \notin SerialOutcomes
      <=> ( GetsFirst /\ ( \/ RacingActivations
                           \/ \E p, q \in Racers :
                                ActivationAgainstUpdate(p, q) /\ LastWriter = q ) ) )

C19_Witness ==
  /\ AllDone
  /\ sheet \notin SerialOutcomes
  /\ \E p, q \in Racers : ActivationAgainstUpdate(p, q)
  /\ Len(sheet) = Len(pending.start)

(* ------------------------------------------------------------------ *)
(* C20  Email uniqueness under concurrent requests: with webhook       *)
(* requests interleaving at single store calls, every sheet reached    *)
(* holds each normalized email in at most one row.                     *)
(* ------------------------------------------------------------------ *)
C20_EmailUniqueConcurrent ==
  \A i \in 1..Len(sheet) : Cardinality(RowsWithEmail(sheet, sheet[i][1])) = 1

STATUS_PAST_DUE == <<"p", "a", "s", "t", "_", "d", "u", "e">>

StatusDomain == {STATUS_ACTIVE, STATUS_PAST_DUE, STATUS_CANCELED, EMPTY}

C22_StatusDomain ==
  LET data == getDataRows(sheet)
  IN  \A i \in 1..Len(data) : trim(data[i][2]) \in StatusDomain

(* ------------------------------------------------------------------ *)
(* C23  A subscription event never changes a record without a         *)
(* subscription id: whatever id string the event carries, also one     *)
(* that is empty after trimming, every row whose column C is empty     *)
(* keeps its status.                                                   *)
(* ------------------------------------------------------------------ *)
C23_NoIdRowsKeepStatus ==
  [][ (last'.kind = "webhook" /\ last'.intent = "UpdateStatus")
        => \A i \in 1..Len(sheet) :
             trim(sheet[i][3]) = EMPTY => sheet'[i][2] = sheet[i][2] ]_vars

====
